---- MODULE Spec2Model ----
(***************************************************************************)
(* Model of model/evaluation/text.py: the example generator, the id        *)
(* renderer, the answer writer and the scores.                             *)
(*                                                                         *)
(* A Python str is a sequence of one-character strings, so that join,      *)
(* split and the line structure of a file are computed, not assumed.       *)
(* A Python object whose type decides an outcome (str or list, for          *)
(* numpy's shape) is a record [type, val].                                 *)
(***************************************************************************)
EXTENDS Integers, Sequences, FiniteSets, TLC

VARIABLES
    pc,                 \* where the running call stands
    formulas,           \* dict idx -> str, as load_formulas returns it
    formulas_ordered,   \* examples: sorted(formulas.items())
    pos,                \* examples: position of the for loop in formulas_ordered
    last_idx,           \* examples: last_idx
    ex,                 \* examples: the accumulator ex
    yielded,            \* the examples the generator has yielded, in order
    references,         \* unzip_formulas: references
    hypotheses,         \* unzip_formulas: hypotheses
    scores,             \* score_file: the scores dict
    w_references,       \* write_answers: argument references
    w_hypotheses,       \* write_answers: argument hypotheses
    rev_vocab,          \* argument rev_vocab (dict id -> word)
    id_END,             \* argument id_END
    file,               \* the file at path: [exists, data]
    k,                  \* write_answers: number of (ref, hypos) pairs written
    ids,                \* ids_to_str: argument ids
    list_trunc,         \* truncate_end: its return value
    rendered,           \* ids_to_str: its outcome
    m_references,       \* exact_match_score / edit_distance: argument references
    m_hypotheses,       \* exact_match_score / edit_distance: argument hypotheses
    exact_match,        \* outcome of exact_match_score
    lev                 \* outcome of edit_distance

exVars == <<formulas, formulas_ordered, pos, last_idx, ex, yielded, references, hypotheses, scores>>
wVars == <<w_references, w_hypotheses, file, k>>
rVars == <<ids, list_trunc, rendered>>
mVars == <<m_references, m_hypotheses, exact_match, lev>>
vocVars == <<rev_vocab, id_END>>
vars == <<pc, exVars, wVars, vocVars, rVars, mVars>>

----------------------------------------------------------------------------
(* Bounds and sample values *)

MaxIdx == 7

Forms == {<<"a">>, <<"a", " ", "b">>}

None == [type |-> "None"]

Min(a, b) == IF a < b THEN a ELSE b

Max(a, b) == IF a > b THEN a ELSE b

RECURSIVE SeqsOfLen(_, _)
SeqsOfLen(S, n) ==
    IF n = 0 THEN {<<>>}
    ELSE {Append(s, x) : s \in SeqsOfLen(S, n - 1), x \in S}

SeqsUpTo(S, n) == UNION {SeqsOfLen(S, j) : j \in 0..n}

----------------------------------------------------------------------------
(* examples(formulas) and unzip_formulas(formulas) *)

\* sorted(formulas.items(), key=lambda t: t[0])
RECURSIVE SortedItems(_, _)
SortedItems(f, keys) ==
    IF keys = {} THEN <<>>
    ELSE LET m == CHOOSE x \in keys : \A y \in keys : x <= y
         IN <<<<m, f[m]>>>> \o SortedItems(f, keys \ {m})

\* if idx - last_idx > 1
\* (variant: >= in place of >)
NewExample_OffByOne(idx, last) == idx - last >= 1

NewExample(idx, last) == idx - last > 1

\* if len(ex) > 1
\* (variant: > 0 in place of > 1)
ShouldYield_NonEmpty(e) == Len(e) > 0

ShouldYield(e) == Len(e) > 1

\* ref_id, ref_form = ex[0]
RefForm(e) == e[1][2]

\* hypo_ids, hypo_forms = zip(*ex[1:])
\* (variant: ex[0:] in place of ex[1:])
HypoForms_FromStart(e) == [j \in 1..Len(e) |-> e[j][2]]

HypoForms(e) == [j \in 1..(Len(e) - 1) |-> e[j + 1][2]]

\* The generator is created and runs up to its for loop.
ExamplesStart ==
    /\ pc = "unzip_formulas"
    /\ formulas_ordered' = SortedItems(formulas, DOMAIN formulas)
    /\ last_idx' = -1
    /\ ex' = <<>>
    /\ pos' = 1
    /\ references' = <<>>
    /\ hypotheses' = <<>>
    /\ pc' = "examples"
    /\ UNCHANGED <<formulas, yielded, scores, wVars, vocVars, rVars, mVars>>

\* One iteration of the for loop of examples; when it yields, the body of
\* the for loop of unzip_formulas runs on the yielded example.
ExamplesIter ==
    /\ pc = "examples"
    /\ pos <= Len(formulas_ordered)
    /\ LET idx == formulas_ordered[pos][1]
           form == formulas_ordered[pos][2]
           closes == NewExample(idx, last_idx)
           yields == closes /\ ShouldYield(ex)
       IN /\ ex' = Append(IF closes THEN <<>> ELSE ex, <<idx, form>>)
          /\ last_idx' = idx
          /\ pos' = pos + 1
          /\ yielded' = IF yields THEN Append(yielded, ex) ELSE yielded
          /\ IF yields /\ Len(ex) < 2
             THEN \* zip(*[]) is empty: the unpacking raises
                  /\ pc' = "ValueError"
                  /\ UNCHANGED <<references, hypotheses>>
             ELSE /\ pc' = pc
                  /\ references' = IF yields THEN Append(references, RefForm(ex))
                                   ELSE references
                  /\ hypotheses' = IF yields THEN Append(hypotheses, HypoForms(ex))
                                   ELSE hypotheses
    /\ UNCHANGED <<formulas, formulas_ordered, scores, wVars, vocVars, rVars, mVars>>

\* what examples yields once its for loop is exhausted: nothing, the
\* accumulator is left as it is
\* (variant: the accumulator is yielded after the loop when it holds an Example)
FinalFlush_IfExample(e) == IF Len(e) > 1 THEN <<e>> ELSE <<>>

FinalFlush(e) == <<>>

\* The for loop of examples is exhausted: the generator returns and
\* unzip_formulas returns references, hypotheses.
UnzipReturn ==
    /\ pc = "examples"
    /\ pos > Len(formulas_ordered)
    /\ LET last == FinalFlush(ex)
       IN /\ yielded' = yielded \o last
          /\ references' = references \o [j \in 1..Len(last) |-> RefForm(last[j])]
          /\ hypotheses' = hypotheses \o [j \in 1..Len(last) |-> HypoForms(last[j])]
    /\ pc' = "unzipped"
    /\ UNCHANGED <<formulas, formulas_ordered, pos, last_idx, ex, scores, wVars, vocVars,
                   rVars, mVars>>

----------------------------------------------------------------------------
(* Python values *)

Str(s) == [type |-> "str", val |-> s]

List(l) == [type |-> "list", val |-> l]

\* x[0]: an element of a list, a one-character str of a str
Index0(x) == IF x.type = "list" THEN x.val[1] ELSE Str(<<x.val[1]>>)

\* iterating x: the elements of a list, the one-character strs of a str
PyIter(x) == IF x.type = "list" THEN x.val ELSE [j \in 1..Len(x.val) |-> Str(<<x.val[j]>>)]

\* s.split(sep) with a one-character sep: every sep separates, empty pieces are kept
RECURSIVE Split(_, _)
Split(s, sep) ==
    IF \A j \in 1..Len(s) : s[j] # sep THEN <<s>>
    ELSE LET i == CHOOSE j \in 1..Len(s) : s[j] = sep /\ \A h \in 1..(j - 1) : s[h] # sep
         IN <<SubSeq(s, 1, i - 1)>> \o Split(SubSeq(s, i + 1, Len(s)), sep)

\* sep.join(words)
RECURSIVE Join(_, _)
Join(words, sep) ==
    IF words = <<>> THEN <<>>
    ELSE IF Len(words) = 1 THEN words[1]
    ELSE words[1] \o sep \o Join(Tail(words), sep)

\* np.asarray(x).shape, x a str or a list of scalars
NpShape(x) == IF x.type = "list" THEN <<Len(x.val)>> ELSE <<>>

\* np.array_equal(a1, a2): False when the shapes differ, else all elements equal
\* (variant: no comparison of the shapes, elements compared up to the shorter)
np_array_equal_NoShape(a1, a2) ==
    \A j \in 1..Min(Len(PyIter(a1)), Len(PyIter(a2))) : PyIter(a1)[j] = PyIter(a2)[j]

np_array_equal(a1, a2) ==
    IF NpShape(a1) # NpShape(a2) THEN FALSE ELSE a1.val = a2.val

\* distance.levenshtein(seq1, seq2) on the first i and j elements: insertion,
\* deletion and substitution cost 1 each
RECURSIVE LevPrefix(_, _, _, _)
LevPrefix(a, b, i, j) ==
    IF i = 0 THEN j
    ELSE IF j = 0 THEN i
    ELSE Min(Min(LevPrefix(a, b, i - 1, j) + 1, LevPrefix(a, b, i, j - 1) + 1),
             LevPrefix(a, b, i - 1, j - 1) + (IF a[i] = b[j] THEN 0 ELSE 1))

levenshtein(seq1, seq2) ==
    LevPrefix(PyIter(seq1), PyIter(seq2), Len(PyIter(seq1)), Len(PyIter(seq2)))

----------------------------------------------------------------------------
(* The scores. A float quotient is kept as its numerator and denominator. *)

\* the for loop of exact_match_score over zip(references, hypotheses)
RECURSIVE ExactMatchLoop(_, _, _)
ExactMatchLoop(refs, hyps, n) ==
    IF n = 0 THEN 0
    ELSE ExactMatchLoop(refs, hyps, n - 1)
         + (IF np_array_equal(Index0(refs[n]), hyps[n]) THEN 1 ELSE 0)

\* float(max(len(hypotheses), 1))
EMDenominator(hyps) == Max(Len(hyps), 1)

exact_match_score(refs, hyps) ==
    LET n == ExactMatchLoop(refs, hyps, Min(Len(refs), Len(hyps)))
        d == EMDenominator(hyps)
    IN IF d = 0 THEN [raised |-> "ZeroDivisionError", num |-> n, den |-> d]
       ELSE [raised |-> "none", num |-> n, den |-> d]

\* the for loop of edit_distance: d_leven
RECURSIVE DLeven(_, _, _)
DLeven(refs, hyps, n) ==
    IF n = 0 THEN 0
    ELSE DLeven(refs, hyps, n - 1) + levenshtein(Index0(refs[n]), hyps[n])

\* float(max(len(ref), len(hypo)))
\* (variant: min in place of max)
PairLen_Min(ref, hypo) == Min(Len(ref.val), Len(hypo.val))

PairLen(ref, hypo) == Max(Len(ref.val), Len(hypo.val))

\* the for loop of edit_distance: len_tot
RECURSIVE LenTot(_, _, _)
LenTot(refs, hyps, n) ==
    IF n = 0 THEN 0
    ELSE LenTot(refs, hyps, n - 1) + PairLen(Index0(refs[n]), hyps[n])

\* 1. - d_leven / len_tot, kept as d_leven (d) and len_tot (l)
edit_distance(refs, hyps) ==
    LET n == Min(Len(refs), Len(hyps))
        d == DLeven(refs, hyps, n)
        l == LenTot(refs, hyps, n)
    IN IF l = 0 THEN [raised |-> "ZeroDivisionError", d |-> d, l |-> l]
       ELSE [raised |-> "none", d |-> d, l |-> l]

\* [s.split(' ') for s in strs]
Tokenize(strs) == [j \in 1..Len(strs) |-> List([h \in 1..Len(Split(strs[j], " ")) |-> Str(Split(strs[j], " ")[h])])]

\* [hypos[0].split(' ') for hypos in hypotheses]
BestHypotheses(hyps) == Tokenize([j \in 1..Len(hyps) |-> hyps[j][1]])

\* score_file after unzip_formulas has returned: tokenize, take the best
\* hypothesis, score. corpus_bleu is a library call whose value no variable
\* of the model depends on; scores keeps EM and Lev.
ScoreFile ==
    /\ pc = "unzipped"
    /\ LET refs == Tokenize(references)
           best == BestHypotheses(hypotheses)
           em == exact_match_score(refs, best)
           ed == edit_distance(refs, best)
       IN /\ scores' = [EM |-> em, Lev |-> ed]
          /\ pc' = IF ed.raised # "none" THEN ed.raised ELSE "done"
    /\ UNCHANGED <<formulas, formulas_ordered, pos, last_idx, ex, yielded, references,
                   hypotheses, wVars, vocVars, rVars, mVars>>

----------------------------------------------------------------------------
(* score_file(path) on the dict load_formulas returned *)

ExIdle ==
    /\ formulas = <<>>
    /\ formulas_ordered = <<>>
    /\ pos = 0
    /\ last_idx = -1
    /\ ex = <<>>
    /\ yielded = <<>>
    /\ references = <<>>
    /\ hypotheses = <<>>
    /\ scores = None

WIdle ==
    /\ w_references = <<>>
    /\ w_hypotheses = <<>>
    /\ file = [exists |-> FALSE, data |-> <<>>]
    /\ k = 0

RIdle ==
    /\ ids = <<>>
    /\ list_trunc = <<>>
    /\ rendered = None

MIdle ==
    /\ m_references = <<>>
    /\ m_hypotheses = <<>>
    /\ exact_match = None
    /\ lev = None

\* every dict from line numbers in 0..MaxIdx to the sample strings
FormulaMappings == UNION {[D -> Forms] : D \in SUBSET (0..MaxIdx)}

Init ==
    /\ pc = "unzip_formulas"
    /\ formulas \in FormulaMappings
    /\ formulas_ordered = <<>>
    /\ pos = 0
    /\ last_idx = -1
    /\ ex = <<>>
    /\ yielded = <<>>
    /\ references = <<>>
    /\ hypotheses = <<>>
    /\ scores = None
    /\ WIdle
    /\ rev_vocab = <<>>
    /\ id_END = 0
    /\ RIdle
    /\ MIdle

Next ==
    \/ ExamplesStart
    \/ ExamplesIter
    \/ UnzipReturn
    \/ ScoreFile

Spec == Init /\ [][Next]_vars

\* the generator has returned
Exhausted == pc \in {"unzipped", "done", "ZeroDivisionError"}

\* the maximal runs of consecutive keys of f, each as <<first, last>>
Runs(f) ==
    {r \in (DOMAIN f) \X (DOMAIN f) :
        /\ r[1] <= r[2]
        /\ \A i \in r[1]..r[2] : i \in DOMAIN f
        /\ (r[1] - 1) \notin DOMAIN f
        /\ (r[2] + 1) \notin DOMAIN f}

RunSize(r) == r[2] - r[1] + 1

IsLastRun(f, r) == \A m \in DOMAIN f : m <= r[2]

RunExample(f, r) == [j \in 1..RunSize(r) |-> <<r[1] + j - 1, f[r[1] + j - 1]>>]

IsSingleRun(f) == Cardinality(Runs(f)) = 1 /\ Cardinality(DOMAIN f) >= 2

\* C1 as stated: a mapping that is a single contiguous run of N >= 2 indices
\* yields exactly one Example, of size N.
C1_SingleRunYieldsOne ==
    (Exhausted /\ IsSingleRun(formulas))
        => /\ Len(yielded) = 1
           /\ Len(yielded[1]) = Cardinality(DOMAIN formulas)

\* C1 amended: a mapping that is a single contiguous run of N >= 2 indices
\* yields no Example: the run is the last one and stays in the accumulator.
C1_SingleRunYieldsNone ==
    (Exhausted /\ IsSingleRun(formulas))
        => /\ yielded = <<>>
           /\ Len(ex) = Cardinality(DOMAIN formulas)

\* witness of C1: the generator has returned on a single run of 3 indices
\* that does not start at index 0
C1_Witness ==
    /\ Exhausted
    /\ IsSingleRun(formulas)
    /\ Cardinality(DOMAIN formulas) = 3
    /\ 0 \notin DOMAIN formulas

\* C4: every Example yielded has at least 2 entries.
C4_NoSmallExample == \A j \in 1..Len(yielded) : Len(yielded[j]) >= 2

\* witness of C4: the loop has closed a run of one entry, and yielded another run
C4_Witness ==
    /\ Exhausted
    /\ Len(yielded) >= 1
    /\ \E r \in Runs(formulas) : RunSize(r) = 1 /\ ~IsLastRun(formulas, r)

KeptRuns(f) == {r \in Runs(f) : RunSize(r) >= 2 /\ ~IsLastRun(f, r)}

\* C5: what examples yields is, in ascending index order, exactly the maximal
\* runs of consecutive indices that hold at least 2 entries and are not the
\* last run; the last run is never yielded.
C5_YieldsAllButLastRun ==
    Exhausted =>
        /\ Len(yielded) = Cardinality(KeptRuns(formulas))
        /\ \A j \in 1..Len(yielded) :
              \E r \in KeptRuns(formulas) : yielded[j] = RunExample(formulas, r)
        /\ \A j \in 1..(Len(yielded) - 1) : yielded[j][1][1] < yielded[j + 1][1][1]

\* witness of C5: two runs were yielded and a last run of at least 2 entries was dropped
C5_Witness ==
    /\ Exhausted
    /\ Len(yielded) = 2
    /\ \E r \in Runs(formulas) : IsLastRun(formulas, r) /\ RunSize(r) >= 2

\* C6: unzip_formulas returns two lists as long as the sequence of yielded
\* Examples; references[j] is the string of the first element of the j-th
\* Example and hypotheses[j] the strings of its other elements in order,
\* never empty.
C6_UnzipParallel ==
    Exhausted =>
        /\ Len(references) = Len(yielded)
        /\ Len(hypotheses) = Len(yielded)
        /\ \A j \in 1..Len(yielded) :
              /\ references[j] = yielded[j][1][2]
              /\ Len(hypotheses[j]) = Len(yielded[j]) - 1
              /\ Len(hypotheses[j]) >= 1
              /\ \A h \in 1..Len(hypotheses[j]) : hypotheses[j][h] = yielded[j][h + 1][2]

\* witness of C6: an Example with two different hypotheses, the first unlike the reference
C6_Witness ==
    /\ Exhausted
    /\ \E j \in 1..Len(hypotheses) :
          /\ Len(hypotheses[j]) >= 2
          /\ hypotheses[j][1] # hypotheses[j][2]
          /\ references[j] # hypotheses[j][1]

\* the yielded Examples whose first hypothesis and reference have the same tokens
MatchingExamples ==
    {j \in 1..Len(yielded) : Split(yielded[j][2][2], " ") = Split(yielded[j][1][2], " ")}

\* C3: the EM value score_file returns is the fraction of yielded examples
\* whose first hypothesis, split on single spaces, is token for token the
\* reference split on single spaces.
C3_EMIsMatchFraction ==
    pc = "done" =>
        scores.EM.num * Len(yielded) = Cardinality(MatchingExamples) * scores.EM.den

----------------------------------------------------------------------------
(* truncate_end and ids_to_str *)

MaxIdsLen == 4

Ids == 0..3

\* the loop of truncate_end from position j on
\* (variant: continue in place of break)
RECURSIVE TruncateFrom_Continue(_, _, _)
TruncateFrom_Continue(l, e, j) ==
    IF j > Len(l) THEN <<>>
    ELSE IF l[j] = e THEN TruncateFrom_Continue(l, e, j + 1)
    ELSE <<l[j]>> \o TruncateFrom_Continue(l, e, j + 1)

RECURSIVE TruncateFrom(_, _, _)
TruncateFrom(l, e, j) ==
    IF j > Len(l) THEN <<>>
    ELSE IF l[j] = e THEN <<>>
    ELSE <<l[j]>> \o TruncateFrom(l, e, j + 1)

truncate_end_Continue(list_of_ids, e) == TruncateFrom_Continue(list_of_ids, e, 1)

truncate_end(list_of_ids, e) == TruncateFrom(list_of_ids, e, 1)

\* s = [rev_vocab[idx] for idx in ids]; return " ".join(s)
LookupAndJoin(trunc, vocab) ==
    IF \E j \in 1..Len(trunc) : trunc[j] \notin DOMAIN vocab
    THEN [raised |-> "KeyError", val |-> <<>>]
    ELSE [raised |-> "none", val |-> Join([j \in 1..Len(trunc) |-> vocab[trunc[j]]], <<" ">>)]

ids_to_str(l, vocab, e) == LookupAndJoin(truncate_end(l, e), vocab)

Vocabs ==
    {(1 :> <<"a">> @@ 2 :> <<"b", "c">>),
     (0 :> <<"e">> @@ 1 :> <<"a">> @@ 2 :> <<"b", "c">>)}

InitRender ==
    /\ pc = "ids_to_str"
    /\ ids \in SeqsUpTo(Ids, MaxIdsLen)
    /\ rev_vocab \in Vocabs
    /\ id_END \in {0, 2}
    /\ list_trunc = <<>>
    /\ rendered = None
    /\ ExIdle
    /\ WIdle
    /\ MIdle

\* ids = truncate_end(ids, id_END)
TruncateEnd ==
    /\ pc = "ids_to_str"
    /\ list_trunc' = truncate_end(ids, id_END)
    /\ pc' = "truncated"
    /\ UNCHANGED <<exVars, wVars, vocVars, ids, rendered, mVars>>

\* the lookups and the join of ids_to_str
IdsToStrReturn ==
    /\ pc = "truncated"
    /\ rendered' = LookupAndJoin(list_trunc, rev_vocab)
    /\ pc' = "rendered"
    /\ UNCHANGED <<exVars, wVars, vocVars, ids, list_trunc, mVars>>

NextRender ==
    \/ TruncateEnd
    \/ IdsToStrReturn

SpecRender == InitRender /\ [][NextRender]_vars

\* the ids before the first occurrence of e (all of them when e does not occur)
PrefixBeforeEnd(l, e) ==
    LET stops == {j \in 1..Len(l) : l[j] = e}
        first == IF stops = {} THEN Len(l) + 1
                 ELSE CHOOSE j \in stops : \A h \in stops : j <= h
    IN SubSeq(l, 1, first - 1)

\* C7: the outcome of rendering depends only on the prefix of ids before the
\* first id_END: the words of the prefix joined by single spaces (the empty
\* string for an empty prefix) when rev_vocab has every id of the prefix, a
\* lookup failure otherwise; id_END and the ids after it are never looked up.
C7_RenderIsPrefixJoin ==
    pc = "rendered" =>
        LET p == PrefixBeforeEnd(ids, id_END)
        IN IF \A j \in 1..Len(p) : p[j] \in DOMAIN rev_vocab
           THEN /\ rendered.raised = "none"
                /\ IF p = <<>> THEN rendered.val = <<>>
                   ELSE Split(rendered.val, " ") = [j \in 1..Len(p) |-> rev_vocab[p[j]]]
           ELSE rendered.raised = "KeyError"

\* witness of C7: two words rendered, then id_END, which rev_vocab lacks,
\* then an id rev_vocab lacks
C7_Witness ==
    /\ pc = "rendered"
    /\ rendered.raised = "none"
    /\ Len(PrefixBeforeEnd(ids, id_END)) = 2
    /\ Len(ids) = 4
    /\ id_END \notin DOMAIN rev_vocab
    /\ ids[4] \notin DOMAIN rev_vocab

----------------------------------------------------------------------------
(* write_answers, then load_formulas and unzip_formulas on the file written *)

MaxSeqs == 5

\* sample token id sequences: one rendering to the empty string, two to texts
SampleIds == {<<0, 1>>, <<1>>, <<2, 1>>}

\* every (references, hypotheses) of equal length holding at most n id sequences
RECURSIVE AlignedInputs(_)
AlignedInputs(n) ==
    {<<<<>>, <<>>>>} \cup
    UNION {UNION {{<<<<r>> \o rest[1], <<hs>> \o rest[2]>> :
                      r \in SampleIds, hs \in SeqsOfLen(SampleIds, h)} :
                  rest \in AlignedInputs(n - 1 - h)} :
           h \in 0..(n - 1)}

\* the same with the last hypothesis list, or the last reference, missing
MisalignedInputs(n) ==
    {<<in[1], SubSeq(in[2], 1, Len(in[2]) - 1)>> : in \in AlignedInputs(n) \ {<<<<>>, <<>>>>}}
    \cup
    {<<SubSeq(in[1], 1, Len(in[1]) - 1), in[2]>> : in \in AlignedInputs(n) \ {<<<<>>, <<>>>>}}

NoFile == [exists |-> FALSE, data |-> <<>>]

OldFile == [exists |-> TRUE, data |-> <<"b", "\n">>]

InitWrite ==
    /\ pc = "write_answers"
    /\ \E in \in AlignedInputs(MaxSeqs) \cup MisalignedInputs(MaxSeqs) :
          /\ w_references = in[1]
          /\ w_hypotheses = in[2]
    /\ file \in {NoFile, OldFile}
    /\ k = 0
    /\ rev_vocab \in {(1 :> <<"a">> @@ 2 :> <<"b", "c">>), (1 :> <<"a">>)}
    /\ id_END = 0
    /\ ExIdle
    /\ RIdle
    /\ MIdle

\* assert len(references) == len(hypotheses)
\* (variant: no assert)
LengthsAgree_NotChecked(refs, hyps) == TRUE

LengthsAgree(refs, hyps) == Len(refs) = Len(hyps)

\* if len(hypo) > 0
\* (variant: no filter)
KeepHypo_Always(hypo) == TRUE

KeepHypo(hypo) == Len(hypo) > 0

\* "".join(hypo + "\n" for the hypos kept)
RECURSIVE HypoLines(_)
HypoLines(strs) ==
    IF strs = <<>> THEN <<>>
    ELSE (IF KeepHypo(strs[1].val) THEN strs[1].val \o <<"\n">> ELSE <<>>)
         \o HypoLines(Tail(strs))

\* the assert, then open(path, "w"): the file is created or truncated
WriteAnswersOpen ==
    /\ pc = "write_answers"
    /\ IF LengthsAgree(w_references, w_hypotheses)
       THEN /\ file' = [exists |-> TRUE, data |-> <<>>]
            /\ pc' = "writing"
       ELSE /\ file' = file
            /\ pc' = "AssertionError"
    /\ k' = 0
    /\ UNCHANGED <<exVars, w_references, w_hypotheses, vocVars, rVars, mVars>>

\* one iteration of for ref, hypos in zip(references, hypotheses); a failed
\* lookup leaves the with block, which closes the file with what was written
WritePair ==
    /\ pc = "writing"
    /\ k < Min(Len(w_references), Len(w_hypotheses))
    /\ LET ref == ids_to_str(w_references[k + 1], rev_vocab, id_END)
           hypos == [j \in 1..Len(w_hypotheses[k + 1]) |->
                        ids_to_str(w_hypotheses[k + 1][j], rev_vocab, id_END)]
       IN IF ref.raised # "none"
          THEN /\ pc' = ref.raised
               /\ UNCHANGED <<file, k>>
          ELSE IF \E j \in 1..Len(hypos) : hypos[j].raised # "none"
          THEN /\ pc' = "KeyError"
               /\ file' = [file EXCEPT !.data = @ \o ref.val \o <<"\n">>]
               /\ UNCHANGED k
          ELSE /\ file' = [file EXCEPT !.data = @ \o ref.val \o <<"\n">>
                                                 \o HypoLines(hypos) \o <<"\n">>]
               /\ k' = k + 1
               /\ pc' = pc
    /\ UNCHANGED <<exVars, w_references, w_hypotheses, vocVars, rVars, mVars>>

\* zip is exhausted: the with block closes the file and write_answers returns
WriteClose ==
    /\ pc = "writing"
    /\ k >= Min(Len(w_references), Len(w_hypotheses))
    /\ pc' = "written"
    /\ UNCHANGED <<exVars, wVars, vocVars, rVars, mVars>>

\* the lines of a text file: the pieces between line terminators, without
\* the empty piece after a final terminator
FileLines(data) ==
    LET pieces == Split(data, "\n")
    IN IF pieces[Len(pieces)] = <<>> THEN SubSeq(pieces, 1, Len(pieces) - 1) ELSE pieces

IsBlank(line) == \A j \in 1..Len(line) : line[j] = " "

\* load_formulas: 0-based line number -> line text, blank lines excluded
load_formulas(data) ==
    LET lines == FileLines(data)
    IN [idx \in {j - 1 : j \in {h \in 1..Len(lines) : ~IsBlank(lines[h])}} |-> lines[idx + 1]]

\* formulas = load_formulas(path), on the file write_answers wrote
LoadFormulas ==
    /\ pc = "written"
    /\ formulas' = load_formulas(file.data)
    /\ pc' = "unzip_formulas"
    /\ UNCHANGED <<formulas_ordered, pos, last_idx, ex, yielded, references, hypotheses,
                   scores, wVars, vocVars, rVars, mVars>>

NextWrite ==
    \/ WriteAnswersOpen
    \/ WritePair
    \/ WriteClose
    \/ LoadFormulas
    \/ ExamplesStart
    \/ ExamplesIter
    \/ UnzipReturn

SpecWrite == InitWrite /\ [][NextWrite]_vars

\* the text ids_to_str gives for an id sequence of the input
Rendered(l) == ids_to_str(l, rev_vocab, id_END).val

RenderedAll(ls) == [j \in 1..Len(ls) |-> Rendered(ls[j])]

\* C2 as stated: from a file written from at least 2 examples, unzip_formulas
\* returns, for every example except the last one written, the rendered
\* reference as the reference and the rendered hypotheses, in order, as the
\* hypothesis set.
C2_RoundTripAllButLast ==
    (pc = "unzipped" /\ Len(w_references) >= 2) =>
        \A e \in 1..(Len(w_references) - 1) :
            \E j \in 1..Len(references) :
                /\ references[j] = Rendered(w_references[e])
                /\ hypotheses[j] = RenderedAll(w_hypotheses[e])

IsNonEmpty(text) == text # <<>>

\* the non-empty rendered texts of example e: its reference, then its hypotheses
NonEmptyTexts(e) ==
    SelectSeq(<<Rendered(w_references[e])>> \o RenderedAll(w_hypotheses[e]), IsNonEmpty)

\* example e has at least two non-empty rendered texts and a later example
\* has a non-empty rendered text
IsReadBack(e) ==
    /\ Len(NonEmptyTexts(e)) >= 2
    /\ \E later \in (e + 1)..Len(w_references) : NonEmptyTexts(later) # <<>>

ReadBack == SelectSeq([e \in 1..Len(w_references) |-> e], IsReadBack)

\* C2 amended: from a file written from at least 2 examples, unzip_formulas
\* returns, in the order written, one pair for each example that has at
\* least two non-empty rendered texts and is followed by an example with a
\* non-empty rendered text: the first non-empty rendered text of the example
\* as the reference and its other non-empty rendered texts, in order, as the
\* hypothesis set.
C2_RoundTripNonEmptyTexts ==
    (pc = "unzipped" /\ Len(w_references) >= 2) =>
        /\ Len(references) = Len(ReadBack)
        /\ Len(hypotheses) = Len(ReadBack)
        /\ \A j \in 1..Len(ReadBack) :
              /\ references[j] = Head(NonEmptyTexts(ReadBack[j]))
              /\ hypotheses[j] = Tail(NonEmptyTexts(ReadBack[j]))

\* witness of C2: an example read back whose reference rendered to a text and
\* whose hypotheses rendered to a text, the empty string and another text
C2_Witness ==
    /\ pc = "unzipped"
    /\ Len(w_references) >= 2
    /\ \E j \in 1..Len(ReadBack) :
          LET e == ReadBack[j]
          IN /\ Rendered(w_references[e]) # <<>>
             /\ \E h \in 1..Len(w_hypotheses[e]) : Rendered(w_hypotheses[e][h]) = <<>>
             /\ Len(hypotheses[j]) = 2
             /\ hypotheses[j][1] # hypotheses[j][2]

\* C10: when len(references) # len(hypotheses), write_answers fails with an
\* assertion error before any I/O: the file is neither created nor truncated
\* nor written.
C10_AssertBeforeIO ==
    [][(pc \in {"write_answers", "AssertionError"} /\ Len(w_references) # Len(w_hypotheses))
          => (pc' = "AssertionError" /\ file' = file)]_vars

\* witness of C10: the assertion failed and the file that existed still has its content
C10_Witness ==
    /\ pc = "AssertionError"
    /\ Len(w_references) # Len(w_hypotheses)
    /\ file = OldFile

----------------------------------------------------------------------------
(* exact_match_score and edit_distance on arguments of the documented types *)

MaxPairs == 2

\* sample token lists
TokLists ==
    {List(<<>>), List(<<Str(<<"a">>)>>), List(<<Str(<<"b">>)>>),
     List(<<Str(<<"a">>), Str(<<"b">>)>>)}

\* sample groups of references: one reference, or one followed by the reference a
RefGroups ==
    {List(<<t>>) : t \in TokLists} \cup {List(<<t, List(<<Str(<<"a">>)>>)>>) : t \in TokLists}

InitMetrics ==
    /\ pc \in {"exact_match_score", "edit_distance"}
    /\ m_references \in SeqsUpTo(RefGroups, MaxPairs)
    /\ m_hypotheses \in SeqsUpTo(TokLists, MaxPairs)
    /\ exact_match = None
    /\ lev = None
    /\ ExIdle
    /\ WIdle
    /\ rev_vocab = <<>>
    /\ id_END = 0
    /\ RIdle

ExactMatchScore ==
    /\ pc = "exact_match_score"
    /\ exact_match' = exact_match_score(m_references, m_hypotheses)
    /\ pc' = IF exact_match'.raised # "none" THEN exact_match'.raised ELSE "em_returned"
    /\ UNCHANGED <<exVars, wVars, vocVars, rVars, m_references, m_hypotheses, lev>>

EditDistance ==
    /\ pc = "edit_distance"
    /\ lev' = edit_distance(m_references, m_hypotheses)
    /\ pc' = IF lev'.raised # "none" THEN lev'.raised ELSE "lev_returned"
    /\ UNCHANGED <<exVars, wVars, vocVars, rVars, m_references, m_hypotheses, exact_match>>

NextMetrics ==
    \/ ExactMatchScore
    \/ EditDistance

SpecMetrics == InitMetrics /\ [][NextMetrics]_vars

\* the pairs zip(references, hypotheses) gives
Pairs == 1..Min(Len(m_references), Len(m_hypotheses))

FirstRef(j) == m_references[j].val[1]

\* C8: edit_distance fails with a division error exactly when every pair has
\* an empty first reference and an empty hypothesis (also when there is no
\* pair); otherwise it returns 1 - D/L with 0 <= D <= L.
C8_LevErrorOrInUnitRange ==
    (lev # None) =>
        /\ (lev.raised = "ZeroDivisionError") <=>
              (\A j \in Pairs : Len(FirstRef(j).val) = 0 /\ Len(m_hypotheses[j].val) = 0)
        /\ lev.raised \in {"none", "ZeroDivisionError"}
        /\ (lev.raised = "none") => (0 <= lev.d /\ lev.d <= lev.l /\ lev.l > 0)
        /\ (lev.raised = "none") <=> (pc = "lev_returned")

\* witness of C8: a value is returned though one pair is empty on both sides,
\* and the other pair is as far apart as it is long
C8_Witness ==
    /\ pc = "lev_returned"
    /\ \E j \in Pairs : Len(FirstRef(j).val) = 0 /\ Len(m_hypotheses[j].val) = 0
    /\ lev.d = lev.l
    /\ lev.d = 2

\* same length and the same tokens in order
ElementwiseEqual(a, b) ==
    /\ Len(a.val) = Len(b.val)
    /\ \A i \in 1..Len(a.val) : a.val[i] = b.val[i]

\* C9: exact_match_score returns the number of pairs whose hypothesis equals
\* the first reference of its group, divided by max(number of hypotheses, 1):
\* a value in [0,1], 0 without a division error for no hypotheses, and 1
\* exactly when there are hypotheses and each equals its first reference.
C9_EMIsMatchCountOverHypotheses ==
    (exact_match # None) =>
        /\ exact_match.raised = "none"
        /\ pc = "em_returned"
        /\ exact_match.num =
              Cardinality({j \in Pairs : ElementwiseEqual(FirstRef(j), m_hypotheses[j])})
        /\ exact_match.den = Max(Len(m_hypotheses), 1)
        /\ 0 <= exact_match.num /\ exact_match.num <= exact_match.den
        /\ (Len(m_hypotheses) = 0) => (exact_match.num = 0)
        /\ (exact_match.num = exact_match.den) <=>
              /\ Len(m_hypotheses) >= 1
              /\ \A j \in 1..Len(m_hypotheses) :
                    /\ j <= Len(m_references)
                    /\ ElementwiseEqual(FirstRef(j), m_hypotheses[j])

\* witness of C9: one hypothesis of two equals its first reference; the other
\* equals only the second reference of its group
C9_Witness ==
    /\ pc = "em_returned"
    /\ exact_match.num = 1
    /\ exact_match.den = 2
    /\ \E j \in Pairs :
          /\ Len(m_references[j].val) = 2
          /\ m_references[j].val[2] = m_hypotheses[j]
          /\ ~ElementwiseEqual(FirstRef(j), m_hypotheses[j])

====
